---- MODULE Spec2Model ----
(***************************************************************************)
(* Model of trillian/integration/ct_hammer/main.go: the ct_hammer driver.  *)
(*                                                                         *)
(* main() parses the leaf_not_after override, then loops over the         *)
(* configured logs; each iteration creates a client pool, resolves the     *)
(* merge delay and notAfter, builds a chain generator and starts one       *)
(* goroutine that runs integration.HammerCTLog and sends a result on a     *)
(* buffered channel.  After wg.Wait() main closes the channel, drains it,  *)
(* counts the errors and exits.                                            *)
(*                                                                         *)
(* Time is modelled in ticks of half an hour (Hour == 2) and int64         *)
(* nanosecond arithmetic is modelled with IntBits-bit two's complement     *)
(* words: the range of well-formed protobuf timestamps (years 1..9999) is  *)
(* wider than the range UnixNano() can represent (years 1678..2262), and   *)
(* the scaled constants keep that relation.                                *)
(***************************************************************************)
EXTENDS Integers, Sequences, FiniteSets, TLC

----------------------------------------------------------------------------
(* Bounds of the model *)

MaxLogs == 3

----------------------------------------------------------------------------
(* Scaled program constants *)

\* time.Hour, in ticks
Hour == 2

\* width of the int64 returned by Time.UnixNano()
IntBits == 7

\* ptypes: minValidSeconds (0001-01-01T00:00:00Z), which is also Go's zero Time
MinValidTs == -80

\* ptypes: maxValidSeconds (10000-01-01T00:00:00Z), exclusive
MaxValidTs == 96

\* time.Time{}: the zero instant, 0001-01-01T00:00:00Z
ZeroTime == MinValidTs

MinInt == -(2^(IntBits - 1))

MaxInt == 2^(IntBits - 1) - 1

----------------------------------------------------------------------------
(* Values *)

\* a nil *timestamp.Timestamp
NilTs == [set |-> FALSE, v |-> 0]

Ts(n) == [set |-> TRUE, v |-> n]

\* error values: nil, and the error HammerCTLog returns for the log with prefix p
NoErr == [nil |-> TRUE, log |-> ""]

HammerErr(p) == [nil |-> FALSE, log |-> p]

\* c.Prefix of the i-th configured log (prefixes identify logs)
PrefixOf(i) == <<"A", "B", "C", "D", "E", "F">>[i]

----------------------------------------------------------------------------
(* Integer and time arithmetic *)

\* two's complement wrap-around of Go's int64 arithmetic
Wrap(n) == ((n - MinInt) % (2^IntBits)) + MinInt

\* Go's integer division truncates toward zero
GoDiv(a, b) == IF a >= 0 THEN a \div b ELSE -((-a) \div b)

\* Time.UnixNano(): wraps when the instant is outside the int64 range
UnixNano(t) == Wrap(t)

\* time.Unix(0, n)
TimeUnix(n) == n

\* Time.Add(d): instants are kept as seconds+nanoseconds, no wrap
TimeAdd(t, d) == t + d

\* Time.IsZero()
IsZero(t) == t = ZeroTime

\* a ptypes.Timestamp that skips the range validation
TimestampNoCheck(ts) == [err |-> FALSE, t |-> ts.v]

\* ptypes.Timestamp(ts) for a non-nil ts: range validation, then conversion
Timestamp(ts) ==
  IF ts.v >= MinValidTs /\ ts.v < MaxValidTs
    THEN [err |-> FALSE, t |-> ts.v]
    ELSE [err |-> TRUE, t |-> ZeroTime]

\* time.Parse(time.RFC3339, s): s.ok tells whether s is RFC3339 text
TimeParse(s) ==
  IF s.ok THEN [err |-> FALSE, t |-> s.t] ELSE [err |-> TRUE, t |-> ZeroTime]

----------------------------------------------------------------------------
(* notAfterForLog *)

MidpointNanos(start, limit) ==
  Wrap(GoDiv(Wrap(UnixNano(limit) - UnixNano(start)), 2) + UnixNano(start))

NoBoundsResult(now) == [t |-> TimeAdd(now, 24 * Hour), err |-> FALSE]

StartOnlyResult(start) == [t |-> TimeAdd(start, 24 * Hour), err |-> FALSE]

LimitOnlyResult(limit) == [t |-> TimeAdd(limit, -1 * Hour), err |-> FALSE]

ErrResult == [t |-> ZeroTime, err |-> TRUE]

notAfterForLog(c, now) ==
  IF ~c.NotAfterStart.set /\ ~c.NotAfterLimit.set
    THEN NoBoundsResult(now)
    ELSE IF c.NotAfterStart.set
      THEN LET start == Timestamp(c.NotAfterStart) IN
           IF start.err THEN ErrResult
           ELSE IF ~c.NotAfterLimit.set THEN StartOnlyResult(start.t)
           ELSE LET limit == Timestamp(c.NotAfterLimit) IN
                IF limit.err THEN ErrResult
                ELSE [t |-> TimeUnix(MidpointNanos(start.t, limit.t)), err |-> FALSE]
      ELSE LET limit == Timestamp(c.NotAfterLimit) IN
           IF limit.err THEN ErrResult
           ELSE LimitOnlyResult(limit.t)

----------------------------------------------------------------------------
(* Flags and the bias table (main.go:45-73, 98-145) *)

\* time.Second, the unit of merge delays and retry durations
Second == 1

\* the ctfe.EntrypointName values
Kinds ==
  { "AddChain", "AddPreChain", "GetSTH", "GetSTHConsistency",
    "GetProofByHash", "GetEntries", "GetRoots", "GetEntryAndProof" }

\* the flag defaults of main.go:46-72 (testDir tells whether testdata_dir is
\* non-empty; durations in seconds)
DefaultFlags ==
  [ testDir |-> TRUE,
    addChain |-> 20, addPreChain |-> 20, getSTH |-> 2,
    getSTHConsistency |-> 2, getProofByHash |-> 2, getEntries |-> 2,
    getRoots |-> 1, getEntryAndProof |-> 0,
    invalidChance |-> 10, limit |-> 0, mmd |-> 120,
    ignoreErrors |-> FALSE, maxRetry |-> 60, seed |-> -1 ]

\* main.go:110-114: no test data, add-[pre-]chain are disabled
DisableAddChain(f) == [f EXCEPT !.addChain = 0, !.addPreChain = 0]

\* main.go:100-114: the flag variables after the test data step
LoadTestData(f) == IF f.testDir THEN f ELSE DisableAddChain(f)

\* a weight map that leaves the disabled kinds out
BiasWeightsOmitting(f) ==
  IF f.addChain = 0 /\ f.addPreChain = 0
    THEN ("GetSTH" :> f.getSTH) @@ ("GetSTHConsistency" :> f.getSTHConsistency)
         @@ ("GetProofByHash" :> f.getProofByHash)
         @@ ("GetEntries" :> f.getEntries) @@ ("GetRoots" :> f.getRoots)
         @@ ("GetEntryAndProof" :> f.getEntryAndProof)
    ELSE ("AddChain" :> f.addChain) @@ ("AddPreChain" :> f.addPreChain)
         @@ ("GetSTH" :> f.getSTH) @@ ("GetSTHConsistency" :> f.getSTHConsistency)
         @@ ("GetProofByHash" :> f.getProofByHash)
         @@ ("GetEntries" :> f.getEntries) @@ ("GetRoots" :> f.getRoots)
         @@ ("GetEntryAndProof" :> f.getEntryAndProof)

\* main.go:125-134: the Bias map
BiasWeights(f) ==
  ("AddChain" :> f.addChain) @@ ("AddPreChain" :> f.addPreChain)
  @@ ("GetSTH" :> f.getSTH) @@ ("GetSTHConsistency" :> f.getSTHConsistency)
  @@ ("GetProofByHash" :> f.getProofByHash)
  @@ ("GetEntries" :> f.getEntries) @@ ("GetRoots" :> f.getRoots)
  @@ ("GetEntryAndProof" :> f.getEntryAndProof)

\* an InvalidChance map that gives every kind the flag's value
InvalidChancesUniform(f) == [k \in Kinds |-> f.invalidChance]

\* main.go:135-144: the InvalidChance map
InvalidChances(f) ==
  ("AddChain" :> f.invalidChance) @@ ("AddPreChain" :> f.invalidChance)
  @@ ("GetSTH" :> 0) @@ ("GetSTHConsistency" :> f.invalidChance)
  @@ ("GetProofByHash" :> f.invalidChance)
  @@ ("GetEntries" :> f.invalidChance) @@ ("GetRoots" :> 0)
  @@ ("GetEntryAndProof" :> 0)

\* main.go:124-145: integration.HammerBias
HammerBias(f) == [Bias |-> BiasWeights(f), InvalidChance |-> InvalidChances(f)]

\* the bias variable before main.go:124
NoBias == [Bias |-> [k \in {} |-> 0], InvalidChance |-> [k \in {} |-> 0]]

\* a nil integration.Limiter
NilLimiter == [nil |-> TRUE, id |-> 0, rate |-> 0]

----------------------------------------------------------------------------
(* Inputs of a run *)

\* an instant comfortably inside the int64 range
T0 == 5 * Hour

\* the shard bounds of a configured log: none, or a start with a malformed
\* limit (logs with a well-formed window are in ParamLogChoices)
ShardChoices ==
  { [NotAfterStart |-> NilTs,   NotAfterLimit |-> NilTs],
    [NotAfterStart |-> Ts(T0),  NotAfterLimit |-> Ts(MinValidTs - 1)] }

\* values of the leaf_not_after flag: empty, not RFC3339, or RFC3339 text
LeafNotAfterChoices ==
  { [empty |-> TRUE,  ok |-> FALSE, t |-> ZeroTime],
    [empty |-> FALSE, ok |-> FALSE, t |-> ZeroTime],
    [empty |-> FALSE, ok |-> TRUE,  t |-> ZeroTime],
    [empty |-> FALSE, ok |-> TRUE,  t |-> 7] }

\* readings of time.Now(): during a run, and in stand-alone calls
NowChoices == {0}

CalcNowChoices == {0, 1}

\* *configpb.LogConfig of the i-th log with shard window s
LogConfigEmd(i, s, emd) ==
  [Prefix |-> PrefixOf(i), NotAfterStart |-> s.NotAfterStart,
   NotAfterLimit |-> s.NotAfterLimit, ExpectedMergeDelaySec |-> emd]

\* the same without an expected merge delay
LogConfig(i, s) == LogConfigEmd(i, s, 0)

\* the log configurations ctfe.LogConfigFromFile can return
CfgChoices ==
  UNION { { [i \in 1..n |-> LogConfig(i, f[i])] : f \in [1..n -> ShardChoices] }
          : n \in 0..MaxLogs }

----------------------------------------------------------------------------
(* State *)

VARIABLES
  cfg,              \* the configured logs (main.go:93)
  leafNotAfter,     \* the leaf_not_after flag (main.go:49)
  pc,               \* position of main
  idx,              \* position of "for _, c := range cfg"
  notAfterOverride, \* main.go:116
  wg,               \* counter of the sync.WaitGroup (main.go:181)
  results,          \* contents of the results channel (main.go:180)
  closed,           \* whether the results channel is closed
  worker,           \* position of each log's goroutine (main.go:224-228)
  workerErr,        \* err returned by HammerCTLog in each goroutine
  hcfg,             \* the integration.HammerConfig given to each goroutine
  genArg,           \* the notAfter given to NewSyntheticChainGenerator
  errCount,         \* main.go:234
  reported,         \* the "failed with" lines logged by main.go:238
  drained,          \* the results received by the range loop (main.go:235)
  exit,             \* how the process ended, "running" while it has not
  exitPrefix,       \* the log prefix named in the fatal message, if any
  started,          \* per log, the number of go statements executed
  sends,            \* per log, the number of results sent
  calcC,            \* argument of a stand-alone notAfterForLog call
  calcNow,          \* time.Now() during that call
  calcRes,          \* its return value
  calcPc,           \* "idle", "called" or "returned"
  cmdline,          \* the flag values given on the command line
  flags,            \* the flag variables (main.go:45-73)
  bias,             \* main.go:124
  limitersMade,     \* the number of ratelimiter.NewLimiter calls so far
  seedNow,          \* per run, time.Now() masked as at main.go:88
  rngPos,           \* per run, the draws taken from the math/rand source
  draws,            \* per run and worker, the values the worker drew
  round,            \* the round a worker is in (0 when it has none)
  attempts,         \* the attempts made in that round
  elapsedRetry,     \* the time since that round began
  hstate            \* "Idle", "Running", "Completed" or "Failed"

vars ==
  << cfg, leafNotAfter, pc, idx, notAfterOverride, wg, results, closed,
     worker, workerErr, hcfg, genArg, errCount, reported, drained, exit,
     exitPrefix, started, sends, calcC, calcNow, calcRes, calcPc,
     cmdline, flags, bias, limitersMade, seedNow, rngPos, draws,
     round, attempts, elapsedRetry, hstate >>

mainVars ==
  << pc, idx, notAfterOverride, wg, closed, errCount, reported, drained,
     exit, exitPrefix >>

calcVars == << calcC, calcNow, calcRes, calcPc >>

paramVars == << cmdline, flags, bias >>

randVars == << seedNow, rngPos, draws >>

retryVars == << round, attempts, elapsedRetry, hstate >>

auxVars == << randVars, retryVars >>

Logs == 1..Len(cfg)

NoCfg ==
  [Prefix |-> "", NotAfter |-> ZeroTime, MMD |-> 0, EPBias |-> NoBias,
   Limiter |-> NilLimiter, IgnoreErrors |-> FALSE, MaxRetryDuration |-> 0]

NoGenArg == [given |-> FALSE, notAfter |-> ZeroTime, calculated |-> FALSE, now |-> 0]

ConfigExits ==
  {"fatalTestData", "fatalLeafNotAfter", "fatalPool", "fatalNotAfter",
   "fatalGenerator"}

\* the two runs compared for replay, and the workers drawing in each
Runs == 1..2

\* the variables of main and of the goroutines before main starts
MainStart ==
  /\ pc = "setup"
  /\ idx = 1
  /\ notAfterOverride = ZeroTime
  /\ wg = 0
  /\ results = << >>
  /\ closed = FALSE
  /\ worker = [i \in 1..MaxLogs |-> "none"]
  /\ workerErr = [i \in 1..MaxLogs |-> NoErr]
  /\ hcfg = [i \in 1..MaxLogs |-> NoCfg]
  /\ genArg = [i \in 1..MaxLogs |-> NoGenArg]
  /\ errCount = 0
  /\ reported = << >>
  /\ drained = << >>
  /\ exit = "running"
  /\ exitPrefix = ""
  /\ started = [i \in 1..MaxLogs |-> 0]
  /\ sends = [i \in 1..MaxLogs |-> 0]
  /\ bias = NoBias
  /\ limitersMade = 0

\* no stand-alone notAfterForLog call
CalcIdle ==
  /\ calcC = [NotAfterStart |-> NilTs, NotAfterLimit |-> NilTs]
  /\ calcNow = 0
  /\ calcRes = ErrResult
  /\ calcPc = "idle"

\* no replay comparison
RandIdle ==
  /\ seedNow = [r \in Runs |-> 0]
  /\ rngPos = [r \in Runs |-> 0]
  /\ draws = [r \in Runs |-> [i \in 1..MaxLogs |-> << >>]]

\* no campaign followed round by round
RetryIdle ==
  /\ round = 0
  /\ attempts = 0
  /\ elapsedRetry = 0
  /\ hstate = "Idle"

Init ==
  /\ cfg \in CfgChoices
  /\ leafNotAfter \in LeafNotAfterChoices
  /\ pc = "setup"
  /\ idx = 1
  /\ notAfterOverride = ZeroTime
  /\ wg = 0
  /\ results = << >>
  /\ closed = FALSE
  /\ worker = [i \in 1..MaxLogs |-> "none"]
  /\ workerErr = [i \in 1..MaxLogs |-> NoErr]
  /\ hcfg = [i \in 1..MaxLogs |-> NoCfg]
  /\ genArg = [i \in 1..MaxLogs |-> NoGenArg]
  /\ errCount = 0
  /\ reported = << >>
  /\ drained = << >>
  /\ exit = "running"
  /\ exitPrefix = ""
  /\ started = [i \in 1..MaxLogs |-> 0]
  /\ sends = [i \in 1..MaxLogs |-> 0]
  /\ calcC = [NotAfterStart |-> NilTs, NotAfterLimit |-> NilTs]
  /\ calcNow = 0
  /\ calcRes = ErrResult
  /\ calcPc = "idle"
  /\ cmdline = DefaultFlags
  /\ flags = cmdline
  /\ bias = NoBias
  /\ limitersMade = 0
  /\ RandIdle
  /\ RetryIdle

----------------------------------------------------------------------------
(* main: flag handling before the loop (main.go:98-145, 180-181) *)

\* glog.Exitf: the process ends, goroutines included
Exitf(kind, prefix) ==
  /\ exit' = kind
  /\ exitPrefix' = prefix

\* main.go:100-109: GetChain or MakeSigner fails
LoadTestDataFail ==
  /\ exit = "running" /\ pc = "setup"
  /\ flags.testDir
  /\ Exitf("fatalTestData", "")
  /\ UNCHANGED << cfg, leafNotAfter, pc, idx, notAfterOverride, wg, results,
                  closed, worker, workerErr, hcfg, genArg, errCount, reported,
                  drained, started, sends, calcVars, paramVars, limitersMade,
                  auxVars >>

SetupFail ==
  /\ exit = "running" /\ pc = "setup"
  /\ ~leafNotAfter.empty
  /\ TimeParse(leafNotAfter).err
  /\ Exitf("fatalLeafNotAfter", "")
  /\ UNCHANGED << cfg, leafNotAfter, pc, idx, notAfterOverride, wg, results,
                  closed, worker, workerErr, hcfg, genArg, errCount, reported,
                  drained, started, sends, calcVars, paramVars, limitersMade, auxVars >>

Setup ==
  /\ exit = "running" /\ pc = "setup"
  /\ IF leafNotAfter.empty
       THEN notAfterOverride' = ZeroTime
       ELSE /\ ~TimeParse(leafNotAfter).err
            /\ notAfterOverride' = TimeParse(leafNotAfter).t
  /\ flags' = LoadTestData(flags)
  /\ bias' = HammerBias(flags')
  /\ pc' = "loop"
  /\ UNCHANGED << cfg, leafNotAfter, idx, wg, results, closed, worker,
                  workerErr, hcfg, genArg, errCount, reported, drained, exit,
                  exitPrefix, started, sends, calcVars, cmdline, limitersMade,
                  auxVars >>

----------------------------------------------------------------------------
(* main: one iteration of the loop over cfg (main.go:182-229) *)

\* main.go:197: the calculator is consulted when the override is the zero Time
UseCalculator(override) == IsZero(override)

\* main.go:196-202: the notAfter of log c
ResolveNotAfter(c, now) ==
  IF UseCalculator(notAfterOverride)
    THEN notAfterForLog(c, now)
    ELSE [t |-> notAfterOverride, err |-> FALSE]

\* a merge delay kept in a variable that outlives the iteration
EffectiveMMDLeaky(c, d) ==
  IF c.ExpectedMergeDelaySec # 0 THEN Second * c.ExpectedMergeDelaySec
  ELSE IF idx > 1 THEN hcfg[idx - 1].MMD ELSE d

\* main.go:189-194: the merge delay of log c, d being the mmd flag
EffectiveMMD(c, d) ==
  IF c.ExpectedMergeDelaySec # 0 THEN Second * c.ExpectedMergeDelaySec ELSE d

\* one limiter made before the loop and given to every log
newLimiterShared(rate) ==
  IF rate <= 0 THEN NilLimiter
  ELSE [nil |-> FALSE, id |-> 1, rate |-> rate]

\* main.go:75-80: a fresh limiter, or nil without a positive rate
newLimiter(rate) ==
  IF rate <= 0 THEN NilLimiter
  ELSE [nil |-> FALSE, id |-> limitersMade + 1, rate |-> rate]

\* a configuration that always asks for retries
HammerConfigAlwaysRetry(c, notAfter) ==
  [Prefix |-> c.Prefix, NotAfter |-> notAfter,
   MMD |-> EffectiveMMD(c, flags.mmd), EPBias |-> bias,
   Limiter |-> newLimiter(flags.limit),
   IgnoreErrors |-> TRUE, MaxRetryDuration |-> flags.maxRetry]

\* a loop that adjusts the table for logs with an expected merge delay
HammerConfigOwnBias(c, notAfter) ==
  [Prefix |-> c.Prefix, NotAfter |-> notAfter,
   MMD |-> EffectiveMMD(c, flags.mmd),
   EPBias |-> IF c.ExpectedMergeDelaySec # 0
                THEN HammerBias(DisableAddChain(flags)) ELSE bias,
   Limiter |-> newLimiter(flags.limit),
   IgnoreErrors |-> flags.ignoreErrors, MaxRetryDuration |-> flags.maxRetry]

\* main.go:208-223: the fields of integration.HammerConfig kept by the model
HammerConfig(c, notAfter) ==
  [Prefix |-> c.Prefix, NotAfter |-> notAfter,
   MMD |-> EffectiveMMD(c, flags.mmd), EPBias |-> bias,
   Limiter |-> newLimiter(flags.limit),
   IgnoreErrors |-> flags.ignoreErrors, MaxRetryDuration |-> flags.maxRetry]

\* a loop that launches the same log again
NextIdxRetry(i) == i

\* the next element of "range cfg"
NextIdx(i) == i + 1

\* main.go:183-187, NewRandomPool fails
LoopPoolFail ==
  /\ exit = "running" /\ pc = "loop" /\ idx \in Logs
  /\ wg' = wg + 1
  /\ Exitf("fatalPool", "")
  /\ UNCHANGED << cfg, leafNotAfter, pc, idx, notAfterOverride, results,
                  closed, worker, workerErr, hcfg, genArg, errCount, reported,
                  drained, started, sends, calcVars, paramVars, limitersMade, auxVars >>

\* main.go:183-187, NewRandomPool succeeds
LoopPool ==
  /\ exit = "running" /\ pc = "loop" /\ idx \in Logs
  /\ wg' = wg + 1
  /\ pc' = "body"
  /\ UNCHANGED << cfg, leafNotAfter, idx, notAfterOverride, results, closed,
                  worker, workerErr, hcfg, genArg, errCount, reported, drained,
                  exit, exitPrefix, started, sends, calcVars, paramVars, limitersMade, auxVars >>

\* main.go:196-201, notAfterForLog fails
LoopNotAfterFail ==
  /\ exit = "running" /\ pc = "body"
  /\ \E now \in NowChoices : ResolveNotAfter(cfg[idx], now).err
  /\ Exitf("fatalNotAfter", cfg[idx].Prefix)
  /\ UNCHANGED << cfg, leafNotAfter, pc, idx, notAfterOverride, wg, results,
                  closed, worker, workerErr, hcfg, genArg, errCount, reported,
                  drained, started, sends, calcVars, paramVars, limitersMade, auxVars >>

\* the call of NewSyntheticChainGenerator at main.go:203
GenArg(r, now) ==
  [given |-> TRUE, notAfter |-> r.t,
   calculated |-> UseCalculator(notAfterOverride), now |-> now]

\* main.go:196-206, NewSyntheticChainGenerator fails
LoopGeneratorFail ==
  /\ exit = "running" /\ pc = "body"
  /\ \E now \in NowChoices :
       LET r == ResolveNotAfter(cfg[idx], now) IN
       /\ ~r.err
       /\ genArg' = [genArg EXCEPT ![idx] = GenArg(r, now)]
  /\ Exitf("fatalGenerator", "")
  /\ UNCHANGED << cfg, leafNotAfter, pc, idx, notAfterOverride, wg, results,
                  closed, worker, workerErr, hcfg, errCount, reported,
                  drained, started, sends, calcVars, paramVars, limitersMade, auxVars >>

\* main.go:196-228, the goroutine of log idx is started
LoopSpawn ==
  /\ exit = "running" /\ pc = "body"
  /\ \E now \in NowChoices :
       LET r == ResolveNotAfter(cfg[idx], now) IN
       /\ ~r.err
       /\ genArg' = [genArg EXCEPT ![idx] = GenArg(r, now)]
       /\ hcfg' = [hcfg EXCEPT ![idx] = HammerConfig(cfg[idx], r.t)]
  /\ worker' = [worker EXCEPT ![idx] = "running"]
  /\ started' = [started EXCEPT ![idx] = @ + 1]
  /\ idx' = NextIdx(idx)
  /\ pc' = "loop"
  /\ limitersMade' = IF newLimiter(flags.limit).nil
                       THEN limitersMade ELSE limitersMade + 1
  /\ UNCHANGED << cfg, leafNotAfter, notAfterOverride, wg, results, closed,
                  workerErr, errCount, reported, drained, exit, exitPrefix,
                  sends, calcVars, paramVars, auxVars >>

----------------------------------------------------------------------------
(* The goroutine of log i (main.go:224-228) *)

\* a channel one slot too small
ChanCapShort == IF Len(cfg) > 0 THEN Len(cfg) - 1 ELSE Len(cfg)

\* main.go:180: capacity of the results channel
ChanCap == Len(cfg)

\* a goroutine that reads the prefix through the loop variable of main
ResultLoopVar(h, err) == [prefix |-> cfg[Len(cfg)].Prefix, err |-> err]

\* main.go:227: the result a goroutine sends
Result(h, err) == [prefix |-> h.Prefix, err |-> err]

\* main.go:227 runs once HammerCTLog has returned
SendEnabled(st) == st = "returned"

\* a wg.Done() that is not deferred and can run before the send
DoneEnabledEarly(st) == st \in {"returned", "sent"}

\* a goroutine that never calls wg.Done()
DoneEnabledNever(st) == FALSE

\* main.go:225: the deferred wg.Done() runs after the send
DoneEnabled(st) == st = "sent"

\* main.go:226: HammerCTLog returns, with or without an error
WorkerReturn(i) ==
  /\ exit = "running" /\ worker[i] = "running"
  /\ \E e \in {NoErr, HammerErr(hcfg[i].Prefix)} : workerErr' = [workerErr EXCEPT ![i] = e]
  /\ worker' = [worker EXCEPT ![i] = "returned"]
  /\ UNCHANGED << cfg, leafNotAfter, mainVars, results, hcfg, genArg, started,
                  sends, calcVars, paramVars, limitersMade, auxVars >>

\* main.go:227: send on the buffered channel; a send on a closed channel panics
WorkerSend(i) ==
  /\ exit = "running" /\ SendEnabled(worker[i])
  /\ IF closed
       THEN /\ exit' = "panic"
            /\ UNCHANGED << results, worker, sends >>
       ELSE /\ Len(results) < ChanCap
            /\ results' = Append(results, Result(hcfg[i], workerErr[i]))
            /\ worker' = [worker EXCEPT ![i] = "sent"]
            /\ sends' = [sends EXCEPT ![i] = @ + 1]
            /\ exit' = exit
  /\ UNCHANGED << cfg, leafNotAfter, pc, idx, notAfterOverride, wg, closed,
                  workerErr, hcfg, genArg, errCount, reported, drained,
                  exitPrefix, started, calcVars, paramVars, limitersMade, auxVars >>

\* main.go:225: wg.Done()
WorkerDone(i) ==
  /\ exit = "running" /\ DoneEnabled(worker[i])
  /\ wg' = wg - 1
  /\ worker' = [worker EXCEPT ![i] = "done"]
  /\ UNCHANGED << cfg, leafNotAfter, pc, idx, notAfterOverride, results,
                  closed, workerErr, hcfg, genArg, errCount, reported, drained,
                  exit, exitPrefix, started, sends, calcVars, paramVars, limitersMade, auxVars >>

----------------------------------------------------------------------------
(* main: join and aggregation (main.go:230-245) *)

\* a join that gives up as soon as a failed result is in the channel
WaitReadyFailFast ==
  wg = 0 \/ \E k \in 1..Len(results) : results[k].err # NoErr

\* main.go:230: wg.Wait() returns when the counter is zero
WaitReady == wg = 0

\* main.go:236: a result counts as an error when err != nil
IsFailure(e) == e.err # NoErr

\* a verdict that tolerates one failed log
ExitStatusOffByOne(n) == IF n > 1 THEN "failed" ELSE "ok"

\* main.go:241-244
ExitStatus(n) == IF n > 0 THEN "failed" ELSE "ok"

\* main.go:229-230: the loop is over and wg.Wait() returns
Wait ==
  /\ exit = "running" /\ pc = "loop" /\ idx \notin Logs
  /\ WaitReady
  /\ pc' = "close"
  /\ UNCHANGED << cfg, leafNotAfter, idx, notAfterOverride, wg, results,
                  closed, worker, workerErr, hcfg, genArg, errCount, reported,
                  drained, exit, exitPrefix, started, sends, calcVars, paramVars, limitersMade, auxVars >>

\* main.go:232-234
Close ==
  /\ exit = "running" /\ pc = "close"
  /\ closed' = TRUE
  /\ errCount' = 0
  /\ pc' = "drain"
  /\ UNCHANGED << cfg, leafNotAfter, idx, notAfterOverride, wg, results,
                  worker, workerErr, hcfg, genArg, reported, drained, exit,
                  exitPrefix, started, sends, calcVars, paramVars, limitersMade, auxVars >>

\* main.go:235-240: one iteration of "for e := range results"
Drain ==
  /\ exit = "running" /\ pc = "drain"
  /\ results # << >>
  /\ LET e == Head(results) IN
       /\ results' = Tail(results)
       /\ drained' = Append(drained, e)
       /\ IF IsFailure(e)
            THEN /\ errCount' = errCount + 1
                 /\ reported' = Append(reported, e)
            ELSE UNCHANGED << errCount, reported >>
  /\ UNCHANGED << cfg, leafNotAfter, pc, idx, notAfterOverride, wg, closed,
                  worker, workerErr, hcfg, genArg, exit, exitPrefix, started,
                  sends, calcVars, paramVars, limitersMade, auxVars >>

\* main.go:240-245: the range loop ends on the closed, empty channel
Verdict ==
  /\ exit = "running" /\ pc = "drain"
  /\ results = << >> /\ closed
  /\ exit' = ExitStatus(errCount)
  /\ pc' = "done"
  /\ UNCHANGED << cfg, leafNotAfter, idx, notAfterOverride, wg, results,
                  closed, worker, workerErr, hcfg, genArg, errCount, reported,
                  drained, exitPrefix, started, sends, calcVars, paramVars, limitersMade, auxVars >>

Next ==
  \/ LoadTestDataFail
  \/ SetupFail
  \/ Setup
  \/ LoopPoolFail
  \/ LoopPool
  \/ LoopNotAfterFail
  \/ LoopGeneratorFail
  \/ LoopSpawn
  \/ \E i \in 1..MaxLogs : WorkerReturn(i)
  \/ \E i \in 1..MaxLogs : WorkerSend(i)
  \/ \E i \in 1..MaxLogs : WorkerDone(i)
  \/ Wait
  \/ Close
  \/ Drain
  \/ Verdict

Spec == Init /\ [][Next]_vars

----------------------------------------------------------------------------
(* notAfterForLog on its own, over every pair of bounds *)

\* a shard bound: nil, or a timestamp inside or just outside the valid range
CalcTsChoices == {NilTs} \cup { Ts(n) : n \in (MinValidTs - 1)..MaxValidTs }

CalcInit ==
  /\ cfg = << >>
  /\ leafNotAfter = [empty |-> TRUE, ok |-> FALSE, t |-> ZeroTime]
  /\ pc = "setup"
  /\ idx = 1
  /\ notAfterOverride = ZeroTime
  /\ wg = 0
  /\ results = << >>
  /\ closed = FALSE
  /\ worker = [i \in 1..MaxLogs |-> "none"]
  /\ workerErr = [i \in 1..MaxLogs |-> NoErr]
  /\ hcfg = [i \in 1..MaxLogs |-> NoCfg]
  /\ genArg = [i \in 1..MaxLogs |-> NoGenArg]
  /\ errCount = 0
  /\ reported = << >>
  /\ drained = << >>
  /\ exit = "running"
  /\ exitPrefix = ""
  /\ started = [i \in 1..MaxLogs |-> 0]
  /\ sends = [i \in 1..MaxLogs |-> 0]
  /\ calcC \in [NotAfterStart : CalcTsChoices, NotAfterLimit : CalcTsChoices]
  /\ calcNow \in CalcNowChoices
  /\ calcRes = ErrResult
  /\ calcPc = "called"
  /\ cmdline = DefaultFlags
  /\ flags = cmdline
  /\ bias = NoBias
  /\ limitersMade = 0
  /\ RandIdle
  /\ RetryIdle

\* main.go:249-275: the call returns
CalcReturn ==
  /\ calcPc = "called"
  /\ calcRes' = notAfterForLog(calcC, calcNow)
  /\ calcPc' = "returned"
  /\ UNCHANGED << cfg, leafNotAfter, mainVars, results, worker, workerErr,
                  hcfg, genArg, started, sends, calcC, calcNow, paramVars,
                  limitersMade, auxVars >>

CalcNext == CalcReturn

CalcSpec == CalcInit /\ [][CalcNext]_vars

----------------------------------------------------------------------------
(* The flag handling on its own, over the bias flags (main.go:98-145) *)

\* the weights and invalid_chance given on the command line
BiasFlagChoices ==
  { [DefaultFlags EXCEPT
       !.testDir = td, !.addChain = w1, !.addPreChain = w2, !.getSTH = w3,
       !.getSTHConsistency = w4, !.getProofByHash = w5, !.getEntries = w6,
       !.getRoots = w7, !.getEntryAndProof = w8, !.invalidChance = ic] :
     td \in BOOLEAN, w1 \in {0, 20}, w2 \in {0, 21}, w3 \in {0, 2},
     w4 \in {0, 3}, w5 \in {0, 4}, w6 \in {0, 5}, w7 \in {0, 1},
     w8 \in {0, 6}, ic \in {0, 1, 10} }

BiasInit ==
  /\ cfg = << >>
  /\ leafNotAfter \in { l \in LeafNotAfterChoices : l.empty \/ ~l.ok }
  /\ MainStart
  /\ CalcIdle
  /\ cmdline \in BiasFlagChoices
  /\ flags = cmdline
  /\ RandIdle
  /\ RetryIdle

BiasNext ==
  \/ LoadTestDataFail
  \/ SetupFail
  \/ Setup

BiasSpec == BiasInit /\ [][BiasNext]_vars

----------------------------------------------------------------------------
(* The whole driver over the flags and per-log settings that shape a      *)
(* log's HammerConfig                                                      *)

MaxParamLogs == 2

\* the flag settings: defaults, a negative or positive rate limit, no test
\* data, no positive weight at all
ParamFlagChoices ==
  { DefaultFlags,
    [DefaultFlags EXCEPT !.limit = -1],
    [DefaultFlags EXCEPT !.limit = 5],
    [DefaultFlags EXCEPT !.testDir = FALSE],
    [DefaultFlags EXCEPT
       !.addChain = 0, !.addPreChain = 0, !.getSTH = 0,
       !.getSTHConsistency = 0, !.getProofByHash = 0,
       !.getEntries = 0, !.getRoots = 0, !.getEntryAndProof = 0] }

\* the shard window and expected merge delay (in seconds) a log can carry
ParamLogChoices ==
  { [s |-> [NotAfterStart |-> NilTs, NotAfterLimit |-> NilTs], emd |-> 0],
    [s |-> [NotAfterStart |-> NilTs, NotAfterLimit |-> NilTs], emd |-> 3],
    [s |-> [NotAfterStart |-> Ts(T0), NotAfterLimit |-> Ts(T0 + 10 * Hour)],
     emd |-> 3],
    [s |-> [NotAfterStart |-> Ts(T0), NotAfterLimit |-> Ts(MinValidTs - 1)],
     emd |-> 0] }

ParamCfgChoices ==
  UNION { { [i \in 1..n |-> LogConfigEmd(i, f[i].s, f[i].emd)] :
              f \in [1..n -> ParamLogChoices] }
          : n \in 0..MaxParamLogs }

ParamInit ==
  /\ cfg \in ParamCfgChoices
  /\ leafNotAfter \in { l \in LeafNotAfterChoices : l.t # ZeroTime \/ ~l.ok }
  /\ MainStart
  /\ CalcIdle
  /\ cmdline \in ParamFlagChoices
  /\ flags = cmdline
  /\ RandIdle
  /\ RetryIdle

ParamSpec == ParamInit /\ [][Next]_vars

----------------------------------------------------------------------------
(* The driver under fair scheduling *)

\* the steps of main
MainNext ==
  \/ LoadTestDataFail
  \/ SetupFail
  \/ Setup
  \/ LoopPoolFail
  \/ LoopPool
  \/ LoopNotAfterFail
  \/ LoopGeneratorFail
  \/ LoopSpawn
  \/ Wait
  \/ Close
  \/ Drain
  \/ Verdict

\* the steps of the goroutine of log i; WorkerReturn is the end of its campaign
WorkerNext(i) == WorkerReturn(i) \/ WorkerSend(i) \/ WorkerDone(i)

\* any number of logs, without shard bounds or with a malformed one
FairCfgChoices ==
  UNION { { [i \in 1..n |-> LogConfig(i, f[i])] :
              f \in [1..n -> { sh \in ShardChoices : ~sh.NotAfterStart.set
                                   \/ Timestamp(sh.NotAfterLimit).err }] }
          : n \in 0..MaxLogs }

FairInit ==
  /\ cfg \in FairCfgChoices
  /\ leafNotAfter \in { l \in LeafNotAfterChoices : l.empty \/ ~l.ok }
  /\ MainStart
  /\ CalcIdle
  /\ cmdline = DefaultFlags
  /\ flags = cmdline
  /\ RandIdle
  /\ RetryIdle

\* the Go scheduler runs every runnable goroutine, and every campaign ends
FairSpec ==
  /\ FairInit /\ [][Next]_vars
  /\ WF_vars(MainNext)
  /\ \A i \in 1..MaxLogs : WF_vars(WorkerNext(i))

----------------------------------------------------------------------------
(* Replay: two runs of the same command line and configuration, whose      *)
(* workers draw from the math/rand source seeded at main.go:91             *)

MaxRandLogs == 2

MaxDraws == 2

\* main.go:87-89: the seed given to rand.Seed, now being the masked clock
EffectiveSeed(flag, now) == IF flag = -1 THEN now ELSE flag

\* the n-th value produced by the source seeded with seed
RandValue(seed, n) == [seed |-> seed, n |-> n]

RandInit ==
  /\ cfg \in { [i \in 1..n |-> LogConfig(i, [NotAfterStart |-> NilTs,
                                               NotAfterLimit |-> NilTs])] :
               n \in 1..MaxRandLogs }
  /\ leafNotAfter \in { l \in LeafNotAfterChoices : l.empty }
  /\ MainStart
  /\ CalcIdle
  /\ cmdline \in { [DefaultFlags EXCEPT !.seed = sd] : sd \in {-1, 1, 2} }
  /\ flags = cmdline
  /\ seedNow \in [Runs -> {3, 4}]
  /\ rngPos = [r \in Runs |-> 0]
  /\ draws = [r \in Runs |-> [i \in 1..MaxLogs |-> << >>]]
  /\ RetryIdle

\* in run r the worker of log i draws the next value of the shared source
Draw(r, i) ==
  /\ i \in Logs
  /\ Len(draws[r][i]) < MaxDraws
  /\ rngPos' = [rngPos EXCEPT ![r] = @ + 1]
  /\ draws' = [draws EXCEPT ![r][i] =
                 Append(@, RandValue(EffectiveSeed(flags.seed, seedNow[r]),
                                     rngPos[r] + 1))]
  /\ UNCHANGED << cfg, leafNotAfter, mainVars, results, worker, workerErr,
                  hcfg, genArg, started, sends, calcVars, paramVars,
                  limitersMade, seedNow, retryVars >>

RandNext == \E r \in Runs, i \in 1..MaxLogs : Draw(r, i)

RandSpec == RandInit /\ [][RandNext]_vars

----------------------------------------------------------------------------
(* One campaign followed round by round: the error policy of a worker     *)

MaxRounds == 2

MaxRetryChoice == 4

\* the HammerConfig of the campaign (main.go:208-223)
Policy == HammerConfig(cfg[1], ZeroTime)

RetryInit ==
  /\ cfg = << LogConfig(1, [NotAfterStart |-> NilTs, NotAfterLimit |-> NilTs]) >>
  /\ leafNotAfter \in { l \in LeafNotAfterChoices : l.empty }
  /\ MainStart
  /\ CalcIdle
  /\ cmdline \in { [DefaultFlags EXCEPT !.ignoreErrors = ie, !.maxRetry = d] :
                    ie \in BOOLEAN, d \in 0..MaxRetryChoice }
  /\ flags = cmdline
  /\ RandIdle
  /\ RetryIdle

\* HammerCTLog begins its first round
CampaignStart ==
  /\ hstate = "Idle"
  /\ hstate' = "Running"
  /\ round' = 1
  /\ attempts' = 0
  /\ elapsedRetry' = 0
  /\ UNCHANGED << cfg, leafNotAfter, mainVars, results, worker, workerErr,
                  hcfg, genArg, started, sends, calcVars, paramVars,
                  limitersMade, randVars >>

\* the operation of the round succeeds: next round, or the budget is used up
AttemptOK ==
  /\ hstate = "Running"
  /\ IF round = MaxRounds
       THEN /\ hstate' = "Completed"
            /\ attempts' = attempts + 1
            /\ UNCHANGED << round, elapsedRetry >>
       ELSE /\ round' = round + 1
            /\ attempts' = 0
            /\ elapsedRetry' = 0
            /\ hstate' = hstate
  /\ UNCHANGED << cfg, leafNotAfter, mainVars, results, worker, workerErr,
                  hcfg, genArg, started, sends, calcVars, paramVars,
                  limitersMade, randVars >>

\* the operation fails after d ticks: fail fast, give up, or retry
AttemptFail(d) ==
  /\ hstate = "Running"
  /\ attempts' = attempts + 1
  /\ elapsedRetry' = elapsedRetry + d
  /\ hstate' = IF ~Policy.IgnoreErrors THEN "Failed"
               ELSE IF elapsedRetry + d > Policy.MaxRetryDuration THEN "Failed"
               ELSE "Running"
  /\ UNCHANGED << cfg, leafNotAfter, mainVars, results, worker, workerErr,
                  hcfg, genArg, started, sends, calcVars, paramVars,
                  limitersMade, randVars, round >>

RetryNext ==
  \/ CampaignStart
  \/ AttemptOK
  \/ \E d \in 1..2 : AttemptFail(d)

RetrySpec == RetryInit /\ [][RetryNext]_vars

----------------------------------------------------------------------------
(* Properties of the orchestrator *)

\* the logs whose goroutine got an error from HammerCTLog
FailedLogs == { i \in Logs : workerErr[i] # NoErr }

\* the number of results for log i that main has received
Consumed(i) ==
  Cardinality({ k \in 1..Len(drained) : drained[k].prefix = PrefixOf(i) })

\* C1: once main has produced its verdict, the verdict is success if and
\* only if no worker's result carries an error.
C1_VerdictIffNoWorkerError ==
  exit \in {"ok", "failed"} =>
    /\ \A i \in Logs : worker[i] = "done"
    /\ (exit = "ok") <=> (\A i \in Logs : workerErr[i] = NoErr)

C1_Witness ==
  /\ exit = "failed" /\ Len(cfg) = 3
  /\ workerErr[1] = NoErr /\ workerErr[2] # NoErr /\ workerErr[3] = NoErr

\* C2: the channel is not closed and aggregation does not begin while a
\* started worker has still to send its result; no send hits a closed channel.
C2_NoCloseBeforeAllReported ==
  /\ exit # "panic"
  /\ (closed \/ pc \in {"close", "drain", "done"}) =>
       \A i \in 1..MaxLogs :
         /\ worker[i] \notin {"running", "returned"}
         /\ sends[i] = started[i]

C2_Witness ==
  /\ closed /\ Len(cfg) = 3
  /\ \A i \in Logs : sends[i] = 1

\* C3: the channel never holds more results than its capacity or than
\* there are logs, a worker ready to send always finds a free slot (it never
\* blocks), and aggregation receives as many results as there are logs.
C3_ChannelNeverOverflows ==
  /\ Len(results) <= ChanCap /\ Len(results) <= Len(cfg)
  /\ \A i \in 1..MaxLogs :
       (worker[i] = "returned" /\ ~closed) => Len(results) < ChanCap
  /\ pc = "done" => Len(drained) = Len(cfg)

C3_Witness ==
  /\ Len(cfg) = 3 /\ Len(results) = 3 /\ pc = "loop" /\ ~closed

\* C4: a log never has more than one worker, a worker never sends more than
\* one result, a result is never received twice; when the verdict is
\* produced each log has had exactly one worker, one result, one receipt.
C4_ExactlyOnce ==
  /\ \A i \in 1..MaxLogs :
       /\ started[i] <= 1
       /\ sends[i] <= started[i]
       /\ Consumed(i) <= sends[i]
       /\ worker[i] \in {"sent", "done"} => sends[i] = 1
  /\ pc = "done" =>
       \A i \in Logs : started[i] = 1 /\ sends[i] = 1 /\ Consumed(i) = 1

C4_Witness ==
  /\ pc = "done" /\ Len(cfg) = 3
  /\ workerErr[1] # NoErr
  /\ \A i \in Logs : Consumed(i) = 1

\* C5: every reported failure names a log whose worker failed, with that
\* worker's error, no prefix is reported twice, and at the verdict the
\* reported prefixes are exactly the failed logs and errCount is their number.
C5_FailuresAttributed ==
  /\ \A k \in 1..Len(reported) :
       \E i \in FailedLogs :
         reported[k] = [prefix |-> cfg[i].Prefix, err |-> workerErr[i]]
  /\ \A k1, k2 \in 1..Len(reported) :
       reported[k1].prefix = reported[k2].prefix => k1 = k2
  /\ errCount = Len(reported)
  /\ pc = "done" =>
       /\ { reported[k].prefix : k \in 1..Len(reported) }
            = { cfg[i].Prefix : i \in FailedLogs }
       /\ errCount = Cardinality(FailedLogs)

C5_Witness ==
  /\ pc = "done" /\ Len(cfg) = 3
  /\ FailedLogs = {2}
  /\ reported = << [prefix |-> "B", err |-> workerErr[2]] >>
  /\ exit = "failed"

\* C6: a worker's failure changes no sibling and does not end the process;
\* with a failed worker, the join still waits for every worker and the
\* verdict is computed over every log's result.
C6_FailureStep ==
  \A i \in 1..MaxLogs :
    (worker[i] = "running" /\ worker'[i] = "returned" /\ workerErr'[i] # NoErr)
      => /\ exit' = "running"
         /\ \A j \in 1..MaxLogs : j # i => worker'[j] = worker[j]

C6_SiblingsIncluded ==
  FailedLogs # {} =>
    /\ pc \in {"close", "drain", "done"} => \A i \in Logs : worker[i] = "done"
    /\ pc = "done" =>
         \A i \in Logs : \E k \in 1..Len(drained) :
           drained[k] = [prefix |-> cfg[i].Prefix, err |-> workerErr[i]]

C6_FailureDoesNotAbortSiblings ==
  [][C6_FailureStep]_vars /\ []C6_SiblingsIncluded

C6_Witness ==
  /\ pc = "done" /\ Len(cfg) = 3 /\ Len(drained) = 3
  /\ drained[1] = [prefix |-> "A", err |-> HammerErr("A")]
  /\ workerErr[2] = NoErr /\ workerErr[3] = NoErr

\* C7: when the process exits with a fatal configuration error, no worker
\* has been started.
C7_NoWorkerBeforeConfigExit ==
  exit \in ConfigExits => \A i \in 1..MaxLogs : started[i] = 0

\* a shard bound that is present but malformed
BadTs(ts) == ts.set /\ (ts.v < MinValidTs \/ ts.v >= MaxValidTs)

Malformed(c) == BadTs(c.NotAfterStart) \/ BadTs(c.NotAfterLimit)

\* the leaf_not_after flag holds an instant other than the zero Time
OverrideInEffect ==
  ~leafNotAfter.empty /\ leafNotAfter.ok /\ leafNotAfter.t # ZeroTime

C8_Inv ==
  \A i \in Logs :
    (Malformed(cfg[i]) /\ ~OverrideInEffect) =>
      /\ started[i] = 0
      /\ exit \notin {"ok", "failed"}
      /\ idx <= i
      /\ (exit = "fatalNotAfter" /\ idx = i) => exitPrefix = cfg[i].Prefix

C8_Step ==
  ( /\ pc = "body" /\ idx \in Logs
    /\ Malformed(cfg[idx]) /\ ~OverrideInEffect
    /\ << pc, idx, exit >> # << pc', idx', exit' >> )
   => (exit' = "fatalNotAfter" /\ exitPrefix' = cfg[idx].Prefix)

WellFormed(c) == ~Malformed(c)

\* the instant C9 names for well-formed bounds, in unbounded integers
C9_Expected(c, now) ==
  IF ~c.NotAfterStart.set /\ ~c.NotAfterLimit.set THEN now + 24 * Hour
  ELSE IF ~c.NotAfterLimit.set THEN c.NotAfterStart.v + 24 * Hour
  ELSE IF ~c.NotAfterStart.set THEN c.NotAfterLimit.v - Hour
  ELSE c.NotAfterStart.v
         + GoDiv(c.NotAfterLimit.v - c.NotAfterStart.v, 2)

\* C9: for well-formed bounds notAfterForLog returns now+24h, start+24h,
\* the midpoint, or limit-1h, and no error.
C9_WindowValues ==
  (calcPc = "returned" /\ WellFormed(calcC)) =>
    /\ ~calcRes.err
    /\ calcRes.t = C9_Expected(calcC, calcNow)

\* C10: with a non-empty leaf_not_after that parses, the chain generator of
\* every started log was given exactly that instant and the calculator was
\* not consulted.
C10_OverrideUsedVerbatim ==
  (~leafNotAfter.empty /\ leafNotAfter.ok) =>
    \A i \in 1..MaxLogs :
      (genArg[i].given /\ started[i] = 1) =>
        /\ genArg[i].notAfter = leafNotAfter.t
        /\ ~genArg[i].calculated

----------------------------------------------------------------------------
(* Properties of the bias table and of the per-log parameters *)

\* C11: in the table main builds, get-sth, get-roots and get-entry-and-proof
\* have invalid-chance 0 and the five other kinds have the flag's value.
C11_InvalidChances ==
  pc # "setup" =>
    /\ \A k \in {"GetSTH", "GetRoots", "GetEntryAndProof"} :
         bias.InvalidChance[k] = 0
    /\ \A k \in {"AddChain", "AddPreChain", "GetSTHConsistency",
                 "GetProofByHash", "GetEntries"} :
         bias.InvalidChance[k] = cmdline.invalidChance

C11_Witness ==
  /\ pc = "loop" /\ cmdline.invalidChance = 10
  /\ bias.InvalidChance["GetEntryAndProof"] = 0
  /\ bias.InvalidChance["GetEntries"] = 10

\* C12: both maps have the eight kinds as keys; without test data add-chain
\* and add-pre-chain are present with weight 0; every other weight is the
\* one given on the command line.
C12_AllKindsPresent ==
  pc # "setup" =>
    /\ DOMAIN bias.Bias = Kinds
    /\ DOMAIN bias.InvalidChance = Kinds
    /\ bias.Bias["AddChain"] = IF cmdline.testDir THEN cmdline.addChain ELSE 0
    /\ bias.Bias["AddPreChain"] =
         IF cmdline.testDir THEN cmdline.addPreChain ELSE 0
    /\ bias.Bias["GetSTH"] = cmdline.getSTH
    /\ bias.Bias["GetSTHConsistency"] = cmdline.getSTHConsistency
    /\ bias.Bias["GetProofByHash"] = cmdline.getProofByHash
    /\ bias.Bias["GetEntries"] = cmdline.getEntries
    /\ bias.Bias["GetRoots"] = cmdline.getRoots
    /\ bias.Bias["GetEntryAndProof"] = cmdline.getEntryAndProof

C12_Witness ==
  /\ pc = "loop" /\ ~cmdline.testDir
  /\ cmdline.addChain = 20 /\ cmdline.addPreChain = 21
  /\ "AddChain" \in DOMAIN bias.Bias /\ bias.Bias["AddChain"] = 0
  /\ "AddPreChain" \in DOMAIN bias.Bias /\ bias.Bias["AddPreChain"] = 0
  /\ bias.Bias["GetEntryAndProof"] = 6

\* a table with at least one positive weight
HasPositiveWeight(b) == \E k \in DOMAIN b.Bias : b.Bias[k] > 0

\* C13: a table without a positive weight aborts the process; no worker is
\* started with such a table.
C13_AllZeroIsFatal ==
  \A i \in 1..MaxLogs :
    started[i] > 0 => HasPositiveWeight(hcfg[i].EPBias)

\* C15: with a positive rate_limit every started worker has its own limiter
\* of that rate, shared with no other worker; otherwise it has none.
C15_OwnLimiter ==
  \A i \in 1..MaxLogs :
    started[i] > 0 =>
      IF cmdline.limit > 0
        THEN /\ ~hcfg[i].Limiter.nil
             /\ hcfg[i].Limiter.rate = cmdline.limit
             /\ \A j \in 1..MaxLogs :
                  (j # i /\ started[j] > 0) =>
                    hcfg[j].Limiter.id # hcfg[i].Limiter.id
        ELSE hcfg[i].Limiter.nil

C15_Witness ==
  /\ cmdline.limit = 5 /\ started[1] = 1 /\ started[2] = 1
  /\ hcfg[1].Limiter.id # hcfg[2].Limiter.id
  /\ worker[1] = "running" /\ worker[2] = "running"

\* C18: once built the table and the weight flags never change, and every
\* started worker holds the table as built.
C18_Frame ==
  pc # "setup" => (bias' = bias /\ flags' = flags)

C18_SameTable ==
  \A i \in 1..MaxLogs :
    started[i] > 0 => (hcfg[i].EPBias = bias /\ bias = HammerBias(flags))

C18_BiasReadOnly == [][C18_Frame]_vars /\ []C18_SameTable

C18_Witness ==
  /\ pc = "done" /\ Len(cfg) = 2 /\ ~cmdline.testDir
  /\ hcfg[1].EPBias = hcfg[2].EPBias
  /\ hcfg[2].EPBias.Bias["AddChain"] = 0
  /\ hcfg[2].EPBias.Bias["GetSTH"] = 2

\* C19: a started log's merge delay is its own expected merge delay when that
\* is non-zero and the mmd flag otherwise, and its notAfter is the override
\* or the window calculated from its own bounds.
C19_OwnParameters ==
  \A i \in 1..MaxLogs :
    started[i] > 0 =>
      /\ hcfg[i].MMD =
           IF cfg[i].ExpectedMergeDelaySec # 0
             THEN Second * cfg[i].ExpectedMergeDelaySec ELSE cmdline.mmd
      /\ hcfg[i].NotAfter =
           IF OverrideInEffect THEN leafNotAfter.t
           ELSE C9_Expected(cfg[i], genArg[i].now)

C19_Witness ==
  /\ Len(cfg) = 2 /\ started[1] = 1 /\ started[2] = 1
  /\ cfg[1].ExpectedMergeDelaySec = 3 /\ cfg[1].NotAfterStart.set
  /\ cfg[2].ExpectedMergeDelaySec = 0 /\ ~cfg[2].NotAfterStart.set
  /\ leafNotAfter.empty
  /\ hcfg[1].MMD = 3 /\ hcfg[2].MMD = 120
  /\ hcfg[1].NotAfter = T0 + 5 * Hour /\ hcfg[2].NotAfter = 24 * Hour

----------------------------------------------------------------------------
(* Replay, retries, termination, the midpoint *)

\* C14: with the seed flag fixed, a worker is given the same sequence of
\* draws in two runs of the same command line and configuration.
C14_SameDraws ==
  cmdline.seed # -1 =>
    \A i \in 1..MaxLogs :
      \A k \in 1..MaxDraws :
        (k <= Len(draws[1][i]) /\ k <= Len(draws[2][i])) =>
          draws[1][i][k] = draws[2][i][k]

\* C16: without ignore-errors a round is attempted once and its failure ends
\* the worker; with it a failing round is retried while the time since the
\* round began does not exceed the maximum, then ends the worker; the
\* retries are bounded and a terminal state is never left.
C16_Inv ==
  /\ ~cmdline.ignoreErrors => attempts <= 1
  /\ (hstate = "Failed" /\ ~cmdline.ignoreErrors) => attempts = 1
  /\ (hstate = "Failed" /\ cmdline.ignoreErrors) =>
       elapsedRetry > cmdline.maxRetry
  /\ (hstate = "Running" /\ attempts > 0) =>
       (cmdline.ignoreErrors /\ elapsedRetry <= cmdline.maxRetry)
  /\ attempts <= cmdline.maxRetry + 1

C16_Step ==
  /\ hstate \in {"Completed", "Failed"} => hstate' = hstate
  /\ (hstate = "Running" /\ attempts' > attempts /\ hstate' = "Running"
        /\ round' = round)
       => (cmdline.ignoreErrors /\ elapsedRetry' > elapsedRetry)

C17_Ended == exit \in {"ok", "failed"} \cup ConfigExits

C17_DrainedAll ==
  exit \in {"ok", "failed"} => (Len(drained) = Len(cfg) /\ results = << >>)

C17_NoDeadlock == <>C17_Ended /\ []C17_DrainedAll

C17_Witness ==
  /\ exit = "failed" /\ Len(cfg) = 3 /\ Len(drained) = 3
  /\ workerErr[3] # NoErr /\ wg = 0

\* C20: with both bounds inside the int64 nanosecond range and start <= limit
\* the result is start + (limit - start) div 2 and lies inside the window.
C20_MidpointInWindow ==
  ( /\ calcPc = "returned"
    /\ calcC.NotAfterStart.set /\ calcC.NotAfterLimit.set
    /\ calcC.NotAfterStart.v \in MinInt..MaxInt
    /\ calcC.NotAfterLimit.v \in MinInt..MaxInt
    /\ calcC.NotAfterStart.v <= calcC.NotAfterLimit.v )
  => /\ ~calcRes.err
     /\ calcRes.t = calcC.NotAfterStart.v
                      + ((calcC.NotAfterLimit.v - calcC.NotAfterStart.v) \div 2)
     /\ calcC.NotAfterStart.v <= calcRes.t
     /\ calcRes.t <= calcC.NotAfterLimit.v

====
